---------------------------- MODULE Spec2Model ----------------------------
(***************************************************************************)
(* Client-side synchronization core of the traffic video front end:        *)
(*   - the job snapshot cache and its polling (VideoDetailPage, UploadPage) *)
(*   - the calibration capture screen (CalibrationPage)                     *)
(*                                                                          *)
(* The pages poll through useQuery of @tanstack/react-query.  The source    *)
(* is written against two generations of that library at once: it uses the  *)
(* version-5 names gcTime and mutation.isPending, and the version-4 call    *)
(* forms refetchInterval: (data) => ... and invalidateQueries([key]).  The  *)
(* installed major version is not fixed by the sources, so it is a choice   *)
(* made in Init (rqMajor); the behaviours that differ are                   *)
(*   - the argument of the refetchInterval callback (the data in 4, the     *)
(*     Query object, which has no status field, in 5), and                  *)
(*   - what an array passed to invalidateQueries matches (the key prefix    *)
(*     in 4, every query in 5),                                             *)
(*   - mutation.isPending (undefined in 4, so buttons are never disabled),  *)
(*     and                                                                  *)
(*   - the option gcTime: 0 of the detail view (ignored in 4, where the     *)
(*     option is called cacheTime and the default of 5 minutes applies).    *)
(*                                                                          *)
(* Time is abstracted: an armed timer may fire at any moment, a request on  *)
(* the wire may be answered at any moment.  Window-focus and reconnect      *)
(* refetches are environment events that are not modelled.                  *)
(***************************************************************************)
EXTENDS Integers, Sequences, FiniteSets, TLC

\* ------------------------------------------------------------------ bounds
NumJobs == 2      \* job ids the server can hand out
MaxLog == 5       \* reads / responses remembered for one detail session
MaxUploads == 2   \* upload requests on the wire
MaxMutations == 1 \* startProcessing / delete requests on the wire
MaxSaves == 1     \* saveCalibration requests on the wire
MaxClicks == 5    \* clicks on the canvas
MaxRepeats == 1   \* clicks on the start button while its request is pending

\* --------------------------------------------------------------- constants
FastInterval == 2000     \* VideoDetailPage refetchInterval
UploadInterval == 1500   \* UploadPage refetchInterval
DefaultGcTime == 300000  \* useQuery without a gcTime option: 5 minutes
RequiredPoints == 4      \* CalibrationPage: points.length >= 4 / !== 4
DefaultDistance == 10    \* CalibrationPage: useState(10)
DefaultCanvasWidth == 300   \* a canvas element without a width attribute
DefaultCanvasHeight == 150  \* a canvas element without a height attribute
MaxSize == 524288000        \* UploadPage: 500 * 1024 * 1024

Ids == 1..NumJobs
Status == {"uploaded", "processing", "completed", "failed"}
Terminal == {"completed", "failed"}
Pages == {"home", "upload", "detail", "calibration"}

VARIABLES
  rqMajor,       \* major version of the query library in the build: 4 or 5
  gw,            \* a call of a videoAPI operation, followed through api.js
  recording,     \* the histories reads and resps are kept (SpecPoll only)
  srv,           \* server: job id -> "none" | Status | "deleted"
  page,          \* the mounted route
  routeId,       \* useParams().id of the detail route, 0 elsewhere
  enable_speed_calculation, \* VideoDetailPage state: processingConfig field
  processingConfig, \* VideoDetailPage state: the other fields of the form
  processMutation, \* VideoDetailPage: status of processMutation, "idle" | "pending"
  q,             \* query cache: key ['video', id] -> query state
  stale,         \* id -> some abandoned getById request is still on the wire
  timer,         \* id -> armed refetch interval of the observer of id, 0 = none
  pollingVideo,  \* UploadPage state, 0 = null
  navTimer,      \* UploadPage: the 500 ms navigation timer is armed
  upReqs,        \* upload requests on the wire owned by the mounted UploadPage
  selectedFile,  \* UploadPage state, NoFile = null
  dragActive,    \* UploadPage state
  uploadProgress,\* UploadPage state
  procReq,       \* job id of the startProcessing request on the wire, 0 = none
  procConfig,    \* the config argument of the videoAPI.process call behind it
  procBody,      \* the body of that request
  procRepeats,   \* further startProcessing requests on the wire for that job
  delReq,        \* job id of the delete request on the wire, 0 = none
  listDelReq,    \* job id of the delete request of the videos list, 0 = none
  reads,         \* detail session: the reads issued, in order (history)
  resps,         \* detail session: the statuses applied, in order (history)
  videoFrame,    \* CalibrationPage state: the frame image is set (else null)
  imageLoaded,   \* CalibrationPage state
  natural,       \* <<width, height>> of the frame image, <<0, 0>> = no image
  rect,          \* <<width, height>> of canvas.getBoundingClientRect()
  canvas,        \* <<canvas.width, canvas.height>>
  surface,       \* what the canvas shows: image, markers, outline
  points,        \* CalibrationPage state: the recorded points, in order
  referenceDistance, \* CalibrationPage state: a number or NaN
  calibration,   \* the data of the calibration query is defined
  calQ,          \* query cache: key ['calibration', id] -> query state
  clicks,        \* clicks on the canvas so far (history)
  lastClick,     \* how handleCanvasClick ended last: "recorded" | "ignored"
  calReq,        \* saveCalibration requests on the wire: <<id, body>>, in order
  srvCal,        \* server: job id -> stored calibration, NoCalibration = none
  lastAlert      \* the last alert() shown since the page was opened

build == <<rqMajor, recording, gw>>
route == <<page, routeId, enable_speed_calculation, processingConfig,
          processMutation>>
picker == <<selectedFile, dragActive, uploadProgress>>
uploadPage == <<pollingVideo, navTimer, upReqs, picker>>
procWire == <<procReq, procConfig, procBody, procRepeats>>
mutations == <<procWire, delReq, listDelReq>>
history == <<reads, resps>>
capture == <<videoFrame, imageLoaded, natural, rect, canvas, surface, points,
             referenceDistance, calibration, lastClick>>
calOut == <<calReq, srvCal, lastAlert, clicks>>
calWire == <<calOut, calQ>>
cal == <<capture, calWire>>

vars == <<build, srv, route, q, stale, timer, uploadPage, mutations, history,
          cal>>

\* ------------------------------------------------------------ query cache
\* A fetch is one unit: the request and the retries the library makes for it
\* (fetch = "request" while any of them is on the wire or waited for).
NoQuery == [present |-> FALSE, data |-> "undefined", dataId |-> 0,
            is_calibrated |-> FALSE, fetch |-> "idle", gcTime |-> 0]

\* The number of upload requests on the wire.
upLive == Len(upReqs)

\* selectedFile = null
NoFile == [name |-> <<>>, size |-> 0]

Max(a, b) == IF a >= b THEN a ELSE b

\* The id whose ['video', id] query the mounted page observes, 0 = none.
ObservedId ==
  CASE page = "detail" -> routeId
    [] page = "calibration" -> routeId
    [] page = "upload" -> pollingVideo
    [] OTHER -> 0

\* What the refetchInterval callback finds in argument?.status.
RefetchArgStatus(data) == IF rqMajor = 4 THEN data ELSE "undefined"

AlwaysPoll(video) == FastInterval

\* VideoDetailPage refetchInterval callback; 0 stands for false.
refetchInterval(video) ==
  IF video = "processing" \/ video = "uploaded" THEN FastInterval ELSE 0

\* The interval the observer of page pg arms for a query holding data.
ComputeInterval(pg, data) ==
  CASE pg = "detail" -> refetchInterval(RefetchArgStatus(data))
    [] pg = "upload" -> UploadInterval
    [] OTHER -> 0

\* gcTime: 0 of VideoDetailPage is an option of version 5; version 4 (whose
\* option is cacheTime) and the other pages keep the default.
GcTimeOf(pg) == IF pg = "detail" /\ rqMajor = 5 THEN 0 ELSE DefaultGcTime

\* retry: true on the upload page (a failing fetch is retried without end),
\* the default elsewhere (a fetch is given up after its third retry).
RetryForever(pg) == pg = "upload"

\* The last observer of key o unsubscribes: an idle query with gcTime 0
\* leaves the cache.  A request on the wire is not aborted (queryFn does not
\* use the abort signal).
Detach(qq, o) ==
  IF qq[o].present /\ qq[o].fetch = "idle" /\ qq[o].gcTime = 0
    THEN [qq EXCEPT ![o] = NoQuery] ELSE qq

\* An observer of page pg subscribes to key id: the query is created if
\* absent, and fetched unless a fetch is already running (staleTime 0).
Attach(qq, id, pg) ==
  LET a == IF qq[id].present
             THEN [qq[id] EXCEPT !.gcTime = Max(@, GcTimeOf(pg))]
             ELSE [NoQuery EXCEPT !.present = TRUE, !.gcTime = GcTimeOf(pg)]
      b == IF a.fetch = "idle" THEN [a EXCEPT !.fetch = "request"] ELSE a
  IN [qq EXCEPT ![id] = b]

Issued(qOld, qNew, id) == qNew[id].fetch = "request" /\ qOld[id].fetch # "request"

Logged(log, e) == IF recording /\ Len(log) < MaxLog THEN Append(log, e) ELSE log

RECURSIVE LoggedN(_, _, _)
LoggedN(log, e, n) == IF n = 0 THEN log ELSE LoggedN(Logged(log, e), e, n - 1)

Read(cause, wait) == [cause |-> cause, wait |-> wait]

LeakedTimers(pg, id, qq) ==
  [k \in Ids |-> IF pg # "home" /\ k = id THEN ComputeInterval(pg, qq[k].data)
                 ELSE timer[k]]

\* The timers after the mounted page became pg observing id (0 = none): the
\* observers of the page that was left are destroyed with their intervals.
ClearedTimers(pg, id, qq) ==
  [k \in Ids |-> IF pg # "home" /\ k = id THEN ComputeInterval(pg, qq[k].data)
                 ELSE 0]

StaleSnapshotKey(id) == IF ObservedId # 0 THEN ObservedId ELSE id

\* The cache key a getById(id) response settles: the query that issued it.
SnapshotKey(id) == id

\* A cache that forgets the other queries when the fetch of one has ended.
ErrorClearsCache(qq, id) == [k \in Ids |-> IF k = id THEN qq[k] ELSE NoQuery]

\* A query that nobody observes and that has gcTime 0 leaves the cache as
\* soon as its fetch has ended.
Settled(qq, id) ==
  IF ObservedId # id /\ qq[id].fetch = "idle" /\ qq[id].gcTime = 0
    THEN [qq EXCEPT ![id] = NoQuery] ELSE qq

\* ------------------------------------------------------ capture state
\* A number of the page: NaN or a value.
NaN == [nan |-> TRUE, val |-> 0]
Num(v) == [nan |-> FALSE, val |-> v]

NoCalibration == [points |-> <<>>, reference_distance |-> Num(0)]

\* The server's is_calibrated attribute of a job: a calibration is stored.
IsCalibrated(id) == srvCal[id] # NoCalibration

\* The body of the answer to GET /videos/{id}/calibration, field
\* calibration_data; mode "none" stands for no calibration data.
getCalibration(id) ==
  IF IsCalibrated(id)
    THEN [mode |-> "four_point", points |-> srvCal[id].points,
          reference_distance |-> srvCal[id].reference_distance]
    ELSE [mode |-> "none", points |-> <<>>, reference_distance |-> Num(0)]

\* What a read of the calibration of id in flight can be answered with.
CalAnswers(cc, id) ==
  IF cc[id].fetch = "early" THEN {cc[id].wire, getCalibration(id)}
                            ELSE {getCalibration(id)}

NoCalibrationData ==
  [mode |-> "none", points |-> <<>>, reference_distance |-> Num(0)]

\* The ['calibration', id] query before its first answer.  fetch "early" is
\* a request in flight that a save has overtaken: the server may have
\* answered it before the save, with wire.
NoCalQuery == [has |-> FALSE, data |-> NoCalibrationData, fetch |-> "idle",
               wire |-> NoCalibrationData]

\* An observer of the calibration query asks for its data: one request,
\* unless one is in flight.
CalFetched(cc, id) ==
  IF cc[id].fetch = "idle" THEN [cc EXCEPT ![id].fetch = "request"] ELSE cc

\* The server stores a calibration of id while a read of it is in flight.
Overtaken(cc, id) ==
  IF cc[id].fetch = "request"
    THEN [cc EXCEPT ![id].fetch = "early", ![id].wire = getCalibration(id)]
    ELSE cc

\* invalidateQueries on an observed calibration query: a fetch is started;
\* a running one is cancelled and reissued if the query has data, and kept
\* if it is the first.
CalRefetched(cc, id) ==
  IF cc[id].has \/ cc[id].fetch = "idle"
    THEN [cc EXCEPT ![id].fetch = "request", ![id].wire = NoCalibrationData]
    ELSE cc

Digit(c) ==
  CASE c = "0" -> 0 [] c = "1" -> 1 [] c = "2" -> 2 [] c = "3" -> 3
    [] c = "4" -> 4 [] c = "5" -> 5 [] c = "6" -> 6 [] c = "7" -> 7
    [] c = "8" -> 8 [] c = "9" -> 9 [] OTHER -> -1

RECURSIVE DigitsValue(_, _, _)
DigitsValue(t, i, acc) ==
  IF i > Len(t) \/ Digit(t[i]) < 0 THEN acc
  ELSE DigitsValue(t, i + 1, acc * 10 + Digit(t[i]))

\* parseFloat(e.target.value), for texts without a fraction part.
parseFloat(t) ==
  LET neg == Len(t) > 0 /\ t[1] = "-"
      start == IF neg THEN 2 ELSE 1
  IN IF start > Len(t) \/ Digit(t[start]) < 0 THEN NaN
     ELSE Num((IF neg THEN -1 ELSE 1) * DigitsValue(t, start, 0))

\* ------------------------------------------------------- transport client
\* The operations of videoAPI that send a request, and the method of each.
Ops == {"upload", "getAll", "getById", "process", "getStatus", "delete",
        "saveCalibration", "getCalibration", "deleteCalibration",
        "getDetections"}

Method(op) ==
  CASE op \in {"upload", "process", "saveCalibration"} -> "post"
    [] op \in {"delete", "deleteCalibration"} -> "delete"
    [] OTHER -> "get"

\* The request configuration an operation hands to the axios instance.
RequestConfig(op) == [method |-> Method(op), url |-> op]
NoRequestConfig == [method |-> "none", url |-> "none"]

\* What a request ends with: a response (a status the server answered), or
\* an error that carries a response (cause "response"), a request that got
\* no response ("request"), or neither ("setup").
Response(status) == [kind |-> "response", status |-> status, cause |-> "none"]
ErrorOf(status, cause) == [kind |-> "error", status |-> status, cause |-> cause]
Nothing == [kind |-> "none", status |-> 0, cause |-> "none"]

\* The statuses a server answers with in the model.
Statuses == {200, 201, 404, 422, 500}

\* axios settles a request: a response with a 2xx status fulfils, any other
\* status, no response and a setup failure reject.
Outcomes ==
  {IF st \in {200, 201} THEN Response(st) ELSE ErrorOf(st, "response")
     : st \in Statuses}
    \cup {ErrorOf(0, "request"), ErrorOf(0, "setup")}

\* A settled promise.
Fulfilled(x) == [state |-> "fulfilled", with |-> x]
Rejected(x) == [state |-> "rejected", with |-> x]

\* api.interceptors.request: logs and returns config.
onRequest(config) == config

\* api.interceptors.response, success: logs and returns response.
onFulfilled(response) == Fulfilled(response)

SwallowsError(error) == Fulfilled(error)

\* api.interceptors.response, failure: logs by the shape of the error and
\* returns Promise.reject(error).
onRejected(error) == Rejected(error)

\* What the caller of an operation gets: response.data, or the error thrown.
Value(response) == [thrown |-> FALSE, of |-> response]
Thrown(error) == [thrown |-> TRUE, of |-> error]

NoCall == [op |-> "none", sent |-> NoRequestConfig, issued |-> 0,
           stage |-> "idle", raised |-> Nothing, result |-> Value(Nothing)]

\* An operation that sends its request again when the first one failed.
retryAfterFailure(call, error) ==
  [call EXCEPT !.issued = @ + 1, !.stage = "wire"]

\* const response = await api.<method>(...) rejects: the operation has no
\* catch, the error leaves it as it is.
awaitFailed(call, error) ==
  [call EXCEPT !.stage = "returned", !.result = Thrown(error)]

\* The await yields the response: return response.data.
awaitDone(call, response) ==
  [call EXCEPT !.stage = "returned", !.result = Value(response)]

\* ------------------------------------------------ processing configuration
\* The values a field of a config object can have: undefined (the field is
\* absent), a boolean, NaN, or the number n / d.
Absent == [t |-> "undefined", b |-> FALSE, n |-> 0, d |-> 1]
Bool(x) == [t |-> "boolean", b |-> x, n |-> 0, d |-> 1]
NotANumber == [t |-> "NaN", b |-> FALSE, n |-> 0, d |-> 1]
Number(n, d) == [t |-> "number", b |-> FALSE, n |-> n, d |-> d]

\* A number of the page as a config value.
FromFloat(x) == IF x.nan THEN NotANumber ELSE Number(x.val, 1)

\* The truthiness of a value: undefined, false, NaN and 0 are falsy.
Truthy(v) ==
  CASE v.t = "undefined" -> FALSE
    [] v.t = "boolean" -> v.b
    [] v.t = "NaN" -> FALSE
    [] v.t = "number" -> v.n # 0

AlwaysDefault(v, default) == default

\* v || default
OrElse(v, default) == IF Truthy(v) THEN v ELSE default

\* useState of processingConfig, without enable_speed_calculation.
DefaultForm ==
  [confidence_threshold |-> Number(3, 10), iou_threshold |-> Number(7, 10),
   speed_limit |-> Number(80, 1)]

\* No call of videoAPI.process is in progress.
NoConfig ==
  [confidence_threshold |-> Absent, iou_threshold |-> Absent,
   enable_speed_calculation |-> Absent, speed_limit |-> Absent]

\* The body videoAPI.process posts for config.
ProcessBody(config) ==
  [confidence_threshold |-> OrElse(config.confidence_threshold, Number(3, 10)),
   iou_threshold |-> OrElse(config.iou_threshold, Number(7, 10)),
   enable_speed_calculation |->
     OrElse(config.enable_speed_calculation, Bool(FALSE)),
   speed_limit |-> OrElse(config.speed_limit, Number(80, 1))]

\* The pages whose route carries a job id and that observe ['video', id].
ByIdPages == {"detail", "calibration"}

RejectsNaNOnly(d) == d.nan

\* !referenceDistance || referenceDistance <= 0
RejectedDistance(d) == (d.nan \/ d.val = 0) \/ (~d.nan /\ d.val <= 0)

\* A canvas nothing was drawn on, or no canvas.
Blank == [image |-> FALSE, markers |-> <<>>, outline |-> <<>>]

\* A drawing that closes the outline from three points on.
drawsOpenShapes(shown, frame, loaded, pts) ==
  IF ~frame \/ ~loaded THEN shown
  ELSE [image |-> TRUE,
        markers |-> [i \in 1..Len(pts) |-> <<pts[i], i>>],
        outline |-> IF Len(pts) >= 3 THEN pts ELSE <<>>]

\* drawCanvas on a canvas that shows shown: nothing without canvas, image
\* or imageLoaded; else the canvas is cleared by its resizing, the image is
\* drawn, a marker at every point with the label index + 1, and the closed
\* path through the points when there are four.
drawCanvas(shown, frame, loaded, pts) ==
  IF ~frame \/ ~loaded THEN shown
  ELSE [image |-> TRUE,
        markers |-> [i \in 1..Len(pts) |-> <<pts[i], i>>],
        outline |-> IF Len(pts) = RequiredPoints THEN pts ELSE <<>>]

\* useEffect(() => drawCanvas(), [points, imageLoaded, videoFrame]), after
\* the render that follows a change of state.
RedrawEffect ==
  surface' = IF <<points', imageLoaded', videoFrame'>>
                  # <<points, imageLoaded, videoFrame>>
               THEN drawCanvas(surface, videoFrame', imageLoaded', points')
               ELSE surface

\* The pre-fill effect on the data of the calibration query: the points and
\* the reference distance it leaves in the state.
\* A pre-fill that adds the saved points to the recorded ones.
PrefillAppends(data, pts) ==
  IF data.mode = "four_point" /\ Len(data.points) = RequiredPoints
    THEN pts \o data.points ELSE pts

PrefillNothing(data, pts) == pts

PrefillPoints(data, pts) ==
  IF data.mode = "four_point" /\ Len(data.points) = RequiredPoints
    THEN data.points ELSE pts

\* A pre-fill that takes the distance only together with the points.
PrefillDistanceWithPoints(data, dist) ==
  IF data.mode = "four_point" /\ Len(data.points) = RequiredPoints
       /\ ~RejectedDistance(data.reference_distance)
    THEN data.reference_distance ELSE dist

PrefillDistance(data, dist) ==
  IF data.mode = "four_point" /\ ~RejectedDistance(data.reference_distance)
    THEN data.reference_distance ELSE dist

\* The page pg (of job id) is mounted over the cache qq and the page before
\* it unmounted; cc is the calibration cache.  A CalibrationPage starts from its useState values, no
\* canvas is rendered; the data its calibration query has in the cache is
\* there at the first render, so the pre-fill effect runs on it, and the
\* query is fetched if the video query has data (enabled: !!video).
CaptureMount(pg, id, qq, cc) ==
  LET c == IF pg = "calibration" THEN cc[id] ELSE NoCalQuery
  IN /\ videoFrame' = FALSE
     /\ imageLoaded' = FALSE
     /\ natural' = <<0, 0>>
     /\ rect' = <<0, 0>>
     /\ canvas' = <<0, 0>>
     /\ surface' = Blank
     /\ points' = (IF c.has THEN PrefillPoints(c.data, <<>>) ELSE <<>>)
     /\ referenceDistance' =
          (IF c.has THEN PrefillDistance(c.data, Num(DefaultDistance))
                    ELSE Num(DefaultDistance))
     /\ calibration' = c.has
     /\ lastClick' = "none"
     /\ calQ' = (IF pg = "calibration" /\ qq[id].data # "undefined"
                  THEN CalFetched(cc, id) ELSE cc)

TypeOK ==
  /\ rqMajor \in {4, 5}
  /\ gw.stage \in {"idle", "wire", "returned"}
  /\ srv \in [Ids -> Status \cup {"none", "deleted"}]
  /\ page \in Pages
  /\ routeId \in 0..NumJobs
  /\ \A k \in Ids : /\ q[k].data \in Status \cup {"undefined"}
                    /\ q[k].fetch \in {"idle", "request"}
                    /\ q[k].gcTime \in {0, DefaultGcTime}
  /\ stale \in [Ids -> BOOLEAN]
  /\ timer \in [Ids -> {0, FastInterval, UploadInterval}]
  /\ pollingVideo \in 0..NumJobs
  /\ upLive \in 0..MaxUploads
  /\ dragActive \in BOOLEAN
  /\ surface.image \in BOOLEAN
  /\ uploadProgress \in 0..100
  /\ enable_speed_calculation \in BOOLEAN
  /\ \A f \in {"confidence_threshold", "iou_threshold", "speed_limit"} :
       /\ processingConfig[f].t \in {"number", "NaN"}
       /\ procConfig[f].t \in {"undefined", "number", "NaN"}
       /\ procBody[f].t \in {"undefined", "number"}
  /\ procReq \in 0..NumJobs
  /\ procReq = 0 <=> procBody = NoConfig
  /\ procRepeats \in 0..MaxRepeats
  /\ procRepeats > 0 => procReq # 0
  /\ processMutation \in {"idle", "pending"}
  /\ processMutation = "pending" => procReq # 0
  /\ listDelReq \in 0..NumJobs
  /\ \A k \in Ids : /\ calQ[k].has \in BOOLEAN
                    /\ calQ[k].fetch \in {"idle", "request", "early"}
  /\ Len(reads) <= MaxLog /\ Len(resps) <= MaxLog
  /\ videoFrame \in BOOLEAN /\ imageLoaded \in BOOLEAN
  /\ calibration \in BOOLEAN
  /\ Len(points) <= RequiredPoints
  /\ referenceDistance.nan \in BOOLEAN /\ referenceDistance.val \in Int
  /\ clicks \in 0..MaxClicks
  /\ lastClick \in {"none", "recorded", "ignored"}
  /\ Len(calReq) <= MaxSaves
  /\ lastAlert \in {"none", "points", "distance", "saved", "failed",
                    "file type", "file size", "no file", "upload failed"}

\* The application is opened on the dashboard; job 1 was uploaded earlier.
Start ==
  /\ rqMajor \in {4, 5}
  /\ gw = NoCall
  /\ srv = [k \in Ids |-> IF k = 1 THEN "uploaded" ELSE "none"]
  /\ page = "home"
  /\ routeId = 0
  /\ q = [k \in Ids |-> NoQuery]
  /\ stale = [k \in Ids |-> FALSE]
  /\ timer = [k \in Ids |-> 0]
  /\ pollingVideo = 0
  /\ navTimer = FALSE
  /\ upReqs = <<>>
  /\ selectedFile = NoFile
  /\ dragActive = FALSE
  /\ uploadProgress = 0
  /\ enable_speed_calculation = FALSE
  /\ processingConfig = DefaultForm
  /\ processMutation = "idle"
  /\ procReq = 0
  /\ procConfig = NoConfig
  /\ procBody = NoConfig
  /\ procRepeats = 0
  /\ delReq = 0
  /\ listDelReq = 0
  /\ reads = <<>>
  /\ resps = <<>>
  /\ videoFrame = FALSE
  /\ imageLoaded = FALSE
  /\ natural = <<0, 0>>
  /\ rect = <<0, 0>>
  /\ canvas = <<0, 0>>
  /\ surface = Blank
  /\ points = <<>>
  /\ referenceDistance = Num(DefaultDistance)
  /\ calibration = FALSE
  /\ clicks = 0
  /\ lastClick = "none"
  /\ calReq = <<>>
  /\ srvCal = [k \in Ids |-> NoCalibration]
  /\ calQ = [k \in Ids |-> NoCalQuery]
  /\ lastAlert = "none"

Init == Start /\ recording = FALSE

\* The state of pages that have not been used and of a wire without requests.
NothingYet ==
  /\ pollingVideo = 0
  /\ navTimer = FALSE
  /\ upReqs = <<>>
  /\ selectedFile = NoFile
  /\ dragActive = FALSE
  /\ uploadProgress = 0
  /\ enable_speed_calculation = FALSE
  /\ processingConfig = DefaultForm
  /\ processMutation = "idle"
  /\ procReq = 0
  /\ procConfig = NoConfig
  /\ procBody = NoConfig
  /\ procRepeats = 0
  /\ delReq = 0
  /\ listDelReq = 0
  /\ reads = <<>>
  /\ resps = <<>>
  /\ videoFrame = FALSE
  /\ imageLoaded = FALSE
  /\ natural = <<0, 0>>
  /\ rect = <<0, 0>>
  /\ canvas = <<0, 0>>
  /\ surface = Blank
  /\ points = <<>>
  /\ referenceDistance = Num(DefaultDistance)
  /\ calibration = FALSE
  /\ clicks = 0
  /\ lastClick = "none"
  /\ calReq = <<>>
  /\ calQ = [k \in Ids |-> NoCalQuery]
  /\ lastAlert = "none"

\* ------------------------------------------------------------- navigation
\* The router shows page pg (for "detail": of job id).  The page that is left
\* is torn down: its query observer is destroyed (interval cleared, pending
\* retry cancelled), the UploadPage effect cleanup clears the navigation
\* timer, and its component state is dropped.  An upload still on the wire
\* goes on without a listener (its job is never looked at by this client).
GotoFrom(qq, cc, pg, id) ==
  LET o == ObservedId
      q1 == IF o # 0 /\ ~(pg \in ByIdPages /\ id = o) THEN Detach(qq, o) ELSE qq
      q2 == IF pg \in ByIdPages THEN Attach(q1, id, pg) ELSE q1
  IN /\ page' = pg
     /\ routeId' = (IF pg \in ByIdPages THEN id ELSE 0)
     /\ q' = q2
     /\ timer' = ClearedTimers(pg, id, q2)
     /\ pollingVideo' = 0
     /\ navTimer' = FALSE
     /\ upReqs' = <<>>
     /\ selectedFile' = NoFile
     /\ dragActive' = FALSE
     /\ uploadProgress' = 0
     /\ enable_speed_calculation' = FALSE
     /\ processingConfig' = DefaultForm
     /\ processMutation' = "idle"
     /\ reads' = (IF pg = "detail" /\ Issued(q1, q2, id)
                    THEN Logged(<<>>, Read("mount", 0)) ELSE <<>>)
     /\ resps' = <<>>
     /\ CaptureMount(pg, id, q2, cc)

Goto(pg, id) == GotoFrom(q, calQ, pg, id)

\* /videos/:id is opened (link, URL, back button).
OpenDetail(id) ==
  /\ ~(page = "detail" /\ routeId = id)
  /\ srv[id] # "none"
  /\ Goto("detail", id)
  /\ lastAlert' = "none"
  /\ UNCHANGED <<build, srv, stale, mutations, calReq, srvCal, clicks>>

\* /videos/:id/calibrate is opened (link, URL, back button).
OpenCalibration(id) ==
  /\ ~(page = "calibration" /\ routeId = id)
  /\ srv[id] # "none"
  /\ Goto("calibration", id)
  /\ lastAlert' = "none"
  /\ UNCHANGED <<build, srv, stale, mutations, calReq, srvCal, clicks>>

OpenUpload ==
  /\ page # "upload"
  /\ Goto("upload", 0)
  /\ lastAlert' = "none"
  /\ UNCHANGED <<build, srv, stale, mutations, calReq, srvCal, clicks>>

\* Any route that observes no job: dashboard, videos list.
OpenHome ==
  /\ page # "home"
  /\ Goto("home", 0)
  /\ lastAlert' = "none"
  /\ UNCHANGED <<build, srv, stale, mutations, calReq, srvCal, clicks>>

\* ------------------------------------------------------------- the reads
\* The observer's interval elapses: a read is issued unless one is running
\* (query.fetch returns the running promise).
TimerTick(id) ==
  /\ timer[id] # 0
  /\ q[id].fetch = "idle"
  /\ q' = [q EXCEPT ![id].fetch = "request"]
  /\ reads' = (IF page = "detail" THEN Logged(reads, Read("timer", timer[id]))
                                  ELSE reads)
  /\ UNCHANGED <<cal, build, srv, route, stale, timer, uploadPage, mutations, resps>>

\* A writer that patches the fields it knows into the snapshot it finds.
patchesFields(old, id) == [old EXCEPT !.data = srv[id], !.dataId = id]

\* The data of the query after the response to getById(id): the response
\* body, whatever the data was before.
setData(old, id) ==
  [old EXCEPT !.data = srv[id], !.dataId = id,
              !.is_calibrated = IsCalibrated(id)]

\* GET /videos/{id} answers 200: the response replaces the snapshot.  On the
\* calibration page the first snapshot enables the calibration query, which
\* is fetched then.
ReadOk(id) ==
  /\ q[id].fetch = "request"
  /\ srv[id] \in Status
  /\ LET k == SnapshotKey(id)
         q1 == [q EXCEPT ![id].fetch = "idle"]
         q2 == [q1 EXCEPT ![k] = setData(q1[k], id)]
         q3 == Settled(q2, id)
         o == ObservedId
     IN /\ q' = q3
        /\ timer' = [j \in Ids |-> IF j = o /\ j \in {id, k}
                                      THEN ComputeInterval(page, q3[j].data)
                                      ELSE timer[j]]
        /\ navTimer' = (IF page = "upload" /\ o # 0 /\ q3[o].data # "undefined"
                          THEN TRUE ELSE navTimer)
        /\ resps' = (IF page = "detail" /\ o = id THEN Logged(resps, srv[id])
                                                  ELSE resps)
        /\ calQ' = (IF page = "calibration" /\ o = k /\ q[k].data = "undefined"
                     THEN CalFetched(calQ, k) ELSE calQ)
  /\ UNCHANGED <<capture, calOut, build, srv, route, stale, pollingVideo, upReqs,
                 picker, mutations, reads>>

\* The fetch of GET /videos/{id} is given up: HTTP error (always, once the
\* job is gone) or no response, on the request and on each retry.  On the
\* upload page the fetch goes on retrying; elsewhere the query enters the
\* error state and keeps the data it had.
ReadFail(id) ==
  /\ q[id].fetch = "request"
  /\ ~(ObservedId = id /\ RetryForever(page))
  /\ q' = Settled([q EXCEPT ![id].fetch = "idle"], id)
  /\ UNCHANGED <<cal, build, srv, route, stale, timer, uploadPage, mutations, history>>

\* The answer to the last abandoned request arrives and is dropped.
StaleResponse(id) ==
  /\ stale[id]
  /\ stale' = [stale EXCEPT ![id] = FALSE]
  /\ UNCHANGED <<cal, build, srv, route, q, timer, uploadPage, mutations, history>>

\* An unobserved idle query is garbage collected when its gcTime has passed.
GcCollect(id) ==
  /\ q[id].present
  /\ ObservedId # id
  /\ q[id].fetch = "idle"
  /\ q' = [q EXCEPT ![id] = NoQuery]
  /\ UNCHANGED <<cal, build, srv, route, stale, timer, uploadPage, mutations, history>>

\* ---------------------------------------------------------- invalidation
\* How many of the invalidateQueries calls of processMutation.onSuccess match
\* the ['video', id] query: the first in version 4, all three in version 5.
ProcessInvalidations == IF rqMajor = 4 THEN 1 ELSE 3

\* The query those calls refetch: invalidateQueries refetches active queries
\* only; version 4 matches the key of the mutation's id, version 5 every query.
InvalidateTarget(id) ==
  IF rqMajor = 4 THEN (IF ObservedId = id THEN id ELSE 0) ELSE ObservedId

\* n invalidateQueries calls in a row on the active query t.  Each call ends
\* in query.fetch(cancelRefetch: true): a running fetch of a query that has
\* data is cancelled and a new request is issued, while the request already
\* on the wire is not aborted; a running first fetch (no data yet) is kept.
\* Abandoned: the requests left on the wire; Reissued: the requests issued.
Abandoned(qq, t, n) ==
  IF qq[t].data = "undefined" THEN 0
  ELSE IF qq[t].fetch = "request" THEN n ELSE n - 1

Reissued(qq, t, n) ==
  IF qq[t].data = "undefined"
    THEN (IF qq[t].fetch = "idle" THEN 1 ELSE 0)
    ELSE n

Refetched(qq, t, n) ==
  IF Reissued(qq, t, n) = 0 THEN qq
  ELSE [qq EXCEPT ![t].fetch = "request"]

\* ---------------------------------------------------- VideoDetailPage
\* The mutation requests on the wire.
OnTheWire == (IF procReq # 0 THEN 1 ELSE 0) + (IF delReq # 0 THEN 1 ELSE 0)
             + (IF listDelReq # 0 THEN 1 ELSE 0)

\* The checkbox of the processing form, rendered for status uploaded or
\* failed.
setProcessingConfig(checked) ==
  /\ page = "detail"
  /\ q[routeId].data \in {"uploaded", "failed"}
  /\ enable_speed_calculation' = checked
  /\ UNCHANGED <<cal, build, srv, page, routeId, processingConfig,
                 processMutation, q, stale,
                 timer, uploadPage, mutations, history>>

\* The positions of the two range inputs (min 0.1, max 1, step 0.1), in
\* tenths, that the operator moves them to.
SliderSteps == {1, 5, 10}

\* onChange of the confidence threshold slider: parseFloat of its value.
setConfidenceThreshold(k) ==
  /\ page = "detail"
  /\ q[routeId].data \in {"uploaded", "failed"}
  /\ processingConfig' =
       [processingConfig EXCEPT !.confidence_threshold = Number(k, 10)]
  /\ UNCHANGED <<cal, build, srv, page, routeId, enable_speed_calculation,
                 processMutation, q,
                 stale, timer, uploadPage, mutations, history>>

\* onChange of the IOU threshold slider.
setIouThreshold(k) ==
  /\ page = "detail"
  /\ q[routeId].data \in {"uploaded", "failed"}
  /\ processingConfig' =
       [processingConfig EXCEPT !.iou_threshold = Number(k, 10)]
  /\ UNCHANGED <<cal, build, srv, page, routeId, enable_speed_calculation,
                 processMutation, q,
                 stale, timer, uploadPage, mutations, history>>

\* onChange of the speed limit input, which is rendered while speed
\* calculation is enabled: parseFloat of the text typed (the min and max
\* attributes of the input do not restrict what is typed).
setSpeedLimit(t) ==
  /\ page = "detail"
  /\ q[routeId].data \in {"uploaded", "failed"}
  /\ enable_speed_calculation
  /\ processingConfig' =
       [processingConfig EXCEPT !.speed_limit = FromFloat(parseFloat(t))]
  /\ UNCHANGED <<cal, build, srv, page, routeId, enable_speed_calculation,
                 processMutation, q,
                 stale, timer, uploadPage, mutations, history>>

\* The processingConfig object of the page, as handed to videoAPI.process.
FormConfig ==
  [confidence_threshold |-> processingConfig.confidence_threshold,
   iou_threshold |-> processingConfig.iou_threshold,
   enable_speed_calculation |-> Bool(enable_speed_calculation),
   speed_limit |-> processingConfig.speed_limit]

\* videoAPI.process(id, config): one POST /videos/{id}/process with the body
\* built from config.
Posted(id, config) ==
  /\ procReq' = id
  /\ procConfig' = config
  /\ procBody' = ProcessBody(config)
  /\ procRepeats' = (IF procReq = 0 THEN 0 ELSE procRepeats + 1)

\* A call of videoAPI.process by a caller of the gateway.
videoAPI_process(id, config) ==
  /\ srv[id] # "none"
  /\ procReq = 0
  /\ OnTheWire < MaxMutations
  /\ Posted(id, config)
  /\ UNCHANGED <<cal, build, srv, route, q, stale, timer, uploadPage,
                 delReq, listDelReq, history>>

ProcessesUncalibrated(config, video) == FALSE

\* processingConfig.enable_speed_calculation && !video.is_calibrated
NeedsCalibration(config, video) == config /\ ~video.is_calibrated

\* disabled={processMutation.isPending}: isPending is a property of the
\* version-5 mutation result; in version 4 it is undefined, and the button
\* is enabled.
StartDisabled(status) == rqMajor = 5 /\ status = "pending"

\* handleProcess: the redirect to the calibration page of video.id, or, the
\* operator having confirmed, processMutation.mutate() (a declined confirm
\* changes nothing).  The form is rendered for status uploaded or failed.
\* A click on the enabled button of a view whose request is pending sends a
\* further request.
handleProcess(id) ==
  /\ page = "detail" /\ routeId = id
  /\ q[id].data \in {"uploaded", "failed"}
  /\ IF NeedsCalibration(enable_speed_calculation, q[id])
       THEN /\ Goto("calibration", q[id].dataId)
            /\ lastAlert' = "none"
            /\ UNCHANGED <<build, srv, stale, mutations, calReq, srvCal, clicks>>
       ELSE /\ ~StartDisabled(processMutation)
            /\ IF procReq = 0 THEN OnTheWire < MaxMutations
                 ELSE /\ procReq = id
                      /\ processMutation = "pending"
                      /\ procRepeats < MaxRepeats
            /\ Posted(id, FormConfig)
            /\ processMutation' = "pending"
            /\ UNCHANGED <<cal, build, srv, page, routeId,
                           enable_speed_calculation, processingConfig, q, stale,
                           timer, uploadPage, delReq, listDelReq, history>>

\* One startProcessing request leaves the wire.  The mutation result of the
\* view follows the request sent last: it stays pending if that one is still
\* on the wire.
Answered ==
  /\ procReq' = (IF procRepeats > 0 THEN procReq ELSE 0)
  /\ procConfig' = (IF procRepeats > 0 THEN procConfig ELSE NoConfig)
  /\ procBody' = (IF procRepeats > 0 THEN procBody ELSE NoConfig)
  /\ procRepeats' = (IF procRepeats > 0 THEN procRepeats - 1 ELSE 0)
  /\ processMutation' \in (IF procRepeats > 0 THEN {processMutation, "idle"}
                                              ELSE {"idle"})

\* POST /videos/{id}/process answers 200: the server starts the job, and
\* processMutation.onSuccess invalidates.
ProcessOk ==
  /\ procReq # 0
  /\ srv[procReq] \in {"uploaded", "failed"}
  /\ LET t == InvalidateTarget(procReq)
         n == ProcessInvalidations
     IN IF t # 0 /\ q[t].present
          THEN /\ stale' = [stale EXCEPT ![t] = @ \/ Abandoned(q, t, n) > 0]
               /\ q' = Refetched(q, t, n)
               /\ reads' = (IF page = "detail"
                              THEN LoggedN(reads, Read("invalidate", 0),
                                           Reissued(q, t, n))
                              ELSE reads)
          ELSE UNCHANGED <<stale, q, reads>>
  /\ srv' = [srv EXCEPT ![procReq] = "processing"]
  /\ Answered
  /\ UNCHANGED <<cal, build, page, routeId, enable_speed_calculation,
                 processingConfig, timer, uploadPage, delReq, listDelReq, resps>>

\* The request fails (rejected by the server, or no response): onError alerts.
ProcessFail ==
  /\ procReq # 0
  /\ Answered
  /\ UNCHANGED <<cal, build, srv, page, routeId, enable_speed_calculation,
                 processingConfig, q, stale, timer, uploadPage, delReq,
                 listDelReq, history>>

\* handleDelete, confirmed: deleteMutation.mutate().
handleDelete(id) ==
  /\ page = "detail" /\ routeId = id
  /\ q[id].data # "undefined"
  /\ delReq = 0
  /\ OnTheWire < MaxMutations
  /\ delReq' = id
  /\ UNCHANGED <<cal, build, srv, route, q, stale, timer, uploadPage, procWire,
                 listDelReq, history>>

\* DELETE /videos/{id} answers 200: deleteMutation.onSuccess navigates to
\* /videos, whatever page is mounted by then.
DeleteOk ==
  /\ delReq # 0
  /\ srv[delReq] \in Status
  /\ srv' = [srv EXCEPT ![delReq] = "deleted"]
  /\ delReq' = 0
  /\ Goto("home", 0)
  /\ lastAlert' = "none"
  /\ UNCHANGED <<build, stale, procWire, listDelReq, calReq, srvCal, clicks>>

DeleteFail ==
  /\ delReq # 0
  /\ delReq' = 0
  /\ UNCHANGED <<cal, build, srv, route, q, stale, timer, uploadPage, procWire,
                 listDelReq, history>>

\* ------------------------------------------------------------- VideosPage
\* handleDelete of the videos list, confirmed: deleteMutation.mutate(id) for
\* a job the list shows (the list may be older than the server's state).
VideosPage_handleDelete(id) ==
  /\ page = "home"
  /\ srv[id] # "none"
  /\ listDelReq = 0
  /\ OnTheWire < MaxMutations
  /\ listDelReq' = id
  /\ UNCHANGED <<cal, build, srv, route, q, stale, timer, uploadPage, procWire,
                 delReq, history>>

\* How many of the invalidateQueries calls of the list's deleteMutation match
\* a ['video', id] query: none in version 4, both in version 5.
ListInvalidations == IF rqMajor = 4 THEN 0 ELSE 2

\* DELETE /videos/{id} answers 200 to the list: onSuccess invalidates the
\* list and the analytics, and stays on the page that is mounted.
VideosPage_DeleteOk ==
  /\ listDelReq # 0
  /\ srv[listDelReq] \in Status
  /\ LET t == ObservedId
         n == ListInvalidations
     IN IF n > 0 /\ t # 0 /\ q[t].present
          THEN /\ stale' = [stale EXCEPT ![t] = @ \/ Abandoned(q, t, n) > 0]
               /\ q' = Refetched(q, t, n)
               /\ reads' = (IF page = "detail"
                              THEN LoggedN(reads, Read("invalidate", 0),
                                           Reissued(q, t, n))
                              ELSE reads)
          ELSE UNCHANGED <<stale, q, reads>>
  /\ srv' = [srv EXCEPT ![listDelReq] = "deleted"]
  /\ listDelReq' = 0
  /\ UNCHANGED <<cal, build, route, timer, uploadPage, procWire, delReq, resps>>

VideosPage_DeleteFail ==
  /\ listDelReq # 0
  /\ listDelReq' = 0
  /\ UNCHANGED <<cal, build, srv, route, q, stale, timer, uploadPage, procWire,
                 delReq, history>>

\* ------------------------------------------------------------- the server
\* The processing of a job ends.
ServerFinish(id, s) ==
  /\ srv[id] = "processing"
  /\ s \in Terminal
  /\ srv' = [srv EXCEPT ![id] = s]
  /\ UNCHANGED <<cal, build, route, q, stale, timer, uploadPage, mutations, history>>

FreeIds == {k \in Ids : srv[k] = "none"}
NextId == CHOOSE k \in FreeIds : \A j \in FreeIds : k <= j

\* ------------------------------------------------------------- UploadPage
\* A file is its name, as a sequence of characters, and its size in bytes.
validTypes == {<<".", "m", "p", "4">>, <<".", "a", "v", "i">>,
               <<".", "m", "o", "v">>, <<".", "m", "k", "v">>,
               <<".", "w", "m", "v">>}

SomeVideo == [name |-> <<"a", ".", "m", "p", "4">>, size |-> 3]

Files ==
  {SomeVideo,
   [name |-> <<"b", ".", "M", "k", "V">>, size |-> 7],
   [name |-> <<"c", ".", "t", "x", "t">>, size |-> 3],
   [name |-> <<"m", "p", "4">>, size |-> 3],
   [name |-> <<"d", ".", "m", "o", "v">>, size |-> MaxSize + 1]}

Uppers == <<"A", "B", "C", "D", "E", "F", "G", "H", "I", "J", "K", "L", "M",
            "N", "O", "P", "Q", "R", "S", "T", "U", "V", "W", "X", "Y", "Z">>
Lowers == <<"a", "b", "c", "d", "e", "f", "g", "h", "i", "j", "k", "l", "m",
            "n", "o", "p", "q", "r", "s", "t", "u", "v", "w", "x", "y", "z">>

toLowerCase(t) ==
  [i \in 1..Len(t) |->
     IF \E j \in 1..26 : Uppers[j] = t[i]
       THEN Lowers[CHOOSE j \in 1..26 : Uppers[j] = t[i]] ELSE t[i]]

\* String.lastIndexOf: the 0-based index of the last c in t, -1 if none.
lastIndexOf(t, c) ==
  LET I == {i \in 1..Len(t) : t[i] = c}
  IN IF I = {} THEN -1 ELSE (CHOOSE i \in I : \A j \in I : j <= i) - 1

\* String.substring(start): a negative start counts as 0.
substring(t, start) == SubSeq(t, Max(start, 0) + 1, Len(t))

fileExt(name) == toLowerCase(substring(name, lastIndexOf(name, ".")))

NeverTooLarge(file) == FALSE

\* file.size > maxSize
TooLarge(file) == file.size > MaxSize

\* handleFileSelect(file): the file is turned down with an alert, or becomes
\* the selected file.
handleFileSelect(file) ==
  IF fileExt(file.name) \notin validTypes
    THEN lastAlert' = "file type" /\ UNCHANGED selectedFile
  ELSE IF TooLarge(file)
    THEN lastAlert' = "file size" /\ UNCHANGED selectedFile
  ELSE selectedFile' = file /\ UNCHANGED lastAlert

\* handleDrag for a dragenter, dragover or dragleave event on the drop zone.
handleDrag(type) ==
  /\ page = "upload"
  /\ dragActive' = (IF type \in {"dragenter", "dragover"} THEN TRUE
                    ELSE IF type = "dragleave" THEN FALSE ELSE dragActive)
  /\ UNCHANGED <<capture, calWire, build, srv, route, q, stale, timer,
                 pollingVideo, navTimer, upReqs, selectedFile, uploadProgress,
                 mutations, history>>

\* handleDrop: the drop zone is there whatever the page shows; file = NoFile
\* is a drop that carries no file.
handleDrop(file) ==
  /\ page = "upload"
  /\ dragActive' = FALSE
  /\ IF file # NoFile THEN handleFileSelect(file)
                      ELSE UNCHANGED <<selectedFile, lastAlert>>
  /\ UNCHANGED <<capture, calReq, srvCal, clicks, calQ, build, srv, route, q,
                 stale, timer, pollingVideo, navTimer, upReqs, uploadProgress,
                 mutations, history>>

\* handleFileChange: the file input is rendered while no file is selected.
handleFileChange(file) ==
  /\ page = "upload"
  /\ selectedFile = NoFile
  /\ handleFileSelect(file)
  /\ UNCHANGED <<capture, calReq, srvCal, clicks, calQ, build, srv, route, q,
                 stale, timer, pollingVideo, navTimer, upReqs, dragActive,
                 uploadProgress, mutations, history>>

\* The remove button: setSelectedFile(null).  It is hidden by
\* uploadMutation.isPending, which version 4 does not define.
RemoveFile ==
  /\ page = "upload"
  /\ selectedFile # NoFile
  /\ rqMajor = 5 => upLive = 0
  /\ selectedFile' = NoFile
  /\ UNCHANGED <<cal, build, srv, route, q, stale, timer, pollingVideo,
                 navTimer, upReqs, dragActive, uploadProgress, mutations,
                 history>>

\* handleUpload: uploadMutation.mutate(selectedFile), or the alert when no
\* file is selected.  The button is rendered while a file is selected, and
\* disabled by uploadMutation.isPending, which version 4 does not define.
\* The request body is the file and its form framing (one unit here); pub is
\* the percentage its progress events published last, -1 = none yet
\* (history).
handleUpload ==
  /\ page = "upload"
  /\ selectedFile # NoFile
  /\ rqMajor = 5 => upLive = 0
  /\ upLive < MaxUploads
  /\ IF selectedFile = NoFile
       THEN lastAlert' = "no file" /\ UNCHANGED upReqs
       ELSE /\ upReqs' = Append(upReqs, [file |-> selectedFile,
                                         total |-> selectedFile.size + 1,
                                         loaded |-> 0, pub |-> -1])
            /\ UNCHANGED lastAlert
  /\ UNCHANGED <<capture, calReq, srvCal, clicks, calQ, build, srv, route, q,
                 stale, timer, pollingVideo, navTimer, picker, mutations,
                 history>>

\* Math.round of n / d, for n >= 0 and d > 0.
Round(n, d) == (2 * n + d) \div (2 * d)

percentRemaining(loaded, total) == Round((total - loaded) * 100, total)

\* Math.round((progressEvent.loaded * 100) / progressEvent.total)
percentCompleted(loaded, total) == Round(loaded * 100, total)

Without(seq, i) == SubSeq(seq, 1, i - 1) \o SubSeq(seq, i + 1, Len(seq))

\* onUploadProgress for request i: loaded bytes have gone out; the event
\* carries the total or not (computable), and without it nothing is
\* published.
UploadProgress(i, loaded, computable) ==
  /\ i \in 1..Len(upReqs)
  /\ loaded > upReqs[i].loaded
  /\ loaded <= upReqs[i].total
  /\ LET p == percentCompleted(loaded, upReqs[i].total)
     IN IF computable
          THEN /\ uploadProgress' = p
               /\ upReqs' = [upReqs EXCEPT ![i].loaded = loaded, ![i].pub = p]
          ELSE /\ upReqs' = [upReqs EXCEPT ![i].loaded = loaded]
               /\ UNCHANGED uploadProgress
  /\ UNCHANGED <<cal, build, srv, route, q, stale, timer, pollingVideo,
                 navTimer, selectedFile, dragActive, mutations, history>>

KeptProgress == uploadProgress

\* setUploadProgress(100) of uploadMutation.onSuccess
CompletedProgress == 100

\* POST /videos/upload answers request i with the new job:
\* uploadMutation.onSuccess sets pollingVideo, which enables the poll query
\* for that id, and the progress to 100; the effect cleanup clears a
\* navigation timer armed for the previous id.
UploadOk(i) ==
  /\ i \in 1..Len(upReqs)
  /\ FreeIds # {}
  /\ LET n == NextId
         o == pollingVideo
         q1 == IF o # 0 THEN Detach(q, o) ELSE q
         q2 == Attach(q1, n, "upload")
     IN /\ srv' = [srv EXCEPT ![n] = "uploaded"]
        /\ pollingVideo' = n
        /\ q' = q2
        /\ timer' = ClearedTimers("upload", n, q2)
        /\ navTimer' = (q2[n].data # "undefined")
  /\ uploadProgress' = CompletedProgress
  /\ upReqs' = Without(upReqs, i)
  /\ UNCHANGED <<cal, build, route, stale, selectedFile, dragActive, mutations,
                 history>>

UploadFailKeepsProgress(i) ==
  /\ i \in 1..Len(upReqs)
  /\ upReqs' = Without(upReqs, i)
  /\ lastAlert' = "upload failed"
  /\ selectedFile' = NoFile
  /\ UNCHANGED <<capture, calReq, srvCal, clicks, calQ, build, srv, route, q,
                 stale, timer, pollingVideo, navTimer, dragActive,
                 uploadProgress, mutations, history>>

\* The upload of request i fails: uploadMutation.onError.
UploadFail(i) ==
  /\ i \in 1..Len(upReqs)
  /\ upReqs' = Without(upReqs, i)
  /\ lastAlert' = "upload failed"
  /\ uploadProgress' = 0
  /\ selectedFile' = NoFile
  /\ UNCHANGED <<capture, calReq, srvCal, clicks, calQ, build, srv, route, q,
                 stale, timer, pollingVideo, navTimer, dragActive, mutations,
                 history>>

\* The 500 ms timer of the navigate effect fires.
NavFire ==
  /\ navTimer
  /\ page = "upload"
  /\ Goto("detail", pollingVideo)
  /\ lastAlert' = "none"
  /\ UNCHANGED <<build, srv, stale, mutations, calReq, srvCal, clicks>>

Next ==
  \/ \E id \in Ids : OpenDetail(id)
  \/ OpenUpload
  \/ OpenHome
  \/ \E id \in Ids : TimerTick(id)
  \/ \E id \in Ids : ReadOk(id)
  \/ \E id \in Ids : ReadFail(id)
  \/ \E id \in Ids : StaleResponse(id)
  \/ \E id \in Ids : GcCollect(id)
  \/ \E id \in Ids : handleProcess(id)
  \/ ProcessOk
  \/ ProcessFail
  \/ \E id \in Ids : handleDelete(id)
  \/ DeleteOk
  \/ DeleteFail
  \/ \E id \in Ids, s \in Terminal : ServerFinish(id, s)
  \/ handleFileChange(SomeVideo)
  \/ handleUpload
  \/ \E i \in 1..MaxUploads : UploadOk(i)
  \/ \E i \in 1..MaxUploads : UploadFail(i)
  \/ NavFire

Spec == Init /\ [][Next]_vars


\* -------------------------------------------------------- CalibrationPage
\* Sizes and click offsets, in pixels (<<width, height>>, <<x, y>>).
\* Layouts: <<native size of the frame image, size of the canvas box>>.
Layouts == {<< <<4, 2>>, <<2, 2>> >>, << <<6, 4>>, <<3, 1>> >>}
ClickOffsets == {<<1, 1>>, <<2, 0>>}

\* The texts the number input can hand to parseFloat, as character sequences.
DistanceTexts == {<<>>, <<"0">>, <<"-", "2">>, <<"3">>}

\* Coordinates are exact fractions <<numerator, denominator>> in lowest
\* terms (the rounding of the double arithmetic is not modelled).
RECURSIVE GCD(_, _)
GCD(a, b) == IF b = 0 THEN a ELSE GCD(b, a % b)

Frac(n, d) == LET g == GCD(n, d) IN <<n \div g, d \div g>>

\* a / b and f * k of handleCanvasClick.
Over(a, b) == Frac(a, b)
Times(f, k) == Frac(f[1] * k, f[2])

\* The video query has data: the page is past its loading spinner.
VideoShown == page = "calibration" /\ q[routeId].data # "undefined"

\* The frame query delivers the image URL: setVideoFrame renders the hidden
\* img and the canvas, which has its default size until the image is drawn.
FrameLoaded(nat, disp) ==
  /\ VideoShown
  /\ ~videoFrame
  /\ videoFrame' = TRUE
  /\ natural' = nat
  /\ rect' = disp
  /\ canvas' = <<DefaultCanvasWidth, DefaultCanvasHeight>>
  /\ UNCHANGED <<build, srv, route, q, stale, timer, uploadPage, mutations,
                 history, imageLoaded, points, referenceDistance, calibration,
                 lastClick, calWire>>
  /\ RedrawEffect

\* img onLoad: setImageLoaded(true); the redraw effect runs drawCanvas, which
\* sizes the canvas to the image.
ImageOnLoad ==
  /\ page = "calibration"
  /\ videoFrame /\ ~imageLoaded
  /\ imageLoaded' = TRUE
  /\ canvas' = natural
  /\ UNCHANGED <<build, srv, route, q, stale, timer, uploadPage, mutations,
                 history, videoFrame, natural, rect, points, referenceDistance,
                 calibration, lastClick, calWire>>
  /\ RedrawEffect

\* GET /videos/{id}/calibration answers: the data enters the cache.  On the
\* calibration page of that job the pre-fill effect runs when the data of
\* the query changes (an answer equal to the data held keeps its reference).
CalibrationLoaded(id) ==
  /\ calQ[id].fetch # "idle"
  /\ srv[id] \in Status
  /\ \E data \in CalAnswers(calQ, id) :
     LET shown == page = "calibration" /\ routeId = id
         changed == ~calQ[id].has \/ calQ[id].data # data
     IN /\ calQ' = [calQ EXCEPT ![id] = [has |-> TRUE, data |-> data,
                                         fetch |-> "idle",
                                         wire |-> NoCalibrationData]]
        /\ calibration' = (IF shown THEN TRUE ELSE calibration)
        /\ points' = (IF shown /\ changed THEN PrefillPoints(data, points)
                                          ELSE points)
        /\ referenceDistance' =
             (IF shown /\ changed THEN PrefillDistance(data, referenceDistance)
                                  ELSE referenceDistance)
  /\ UNCHANGED <<build, srv, route, q, stale, timer, uploadPage, mutations,
                 history, videoFrame, imageLoaded, natural, rect, canvas,
                 lastClick, calOut>>
  /\ RedrawEffect

\* The fetch of GET /videos/{id}/calibration is given up; the query keeps
\* the data it had.
CalibrationFail(id) ==
  /\ calQ[id].fetch # "idle"
  /\ calQ' = [calQ EXCEPT ![id].fetch = "idle", ![id].wire = NoCalibrationData]
  /\ UNCHANGED <<build, srv, route, q, stale, timer, uploadPage, mutations,
                 history, capture, calOut>>

AcceptsEveryClick(pts) == TRUE

\* handleCanvasClick goes on past: if (!canvas || points.length >= 4) return
AcceptsClick(pts) == ~(Len(pts) >= RequiredPoints)

\* handleCanvasClick for a click at offset <<x, y>> from the top-left corner
\* of the canvas box.
handleCanvasClick(x, y) ==
  /\ page = "calibration"
  /\ videoFrame
  /\ x <= rect[1] /\ y <= rect[2]
  /\ clicks < MaxClicks
  /\ clicks' = clicks + 1
  /\ points' = (IF AcceptsClick(points)
                  THEN Append(points, <<Times(Over(x, rect[1]), canvas[1]),
                                        Times(Over(y, rect[2]), canvas[2])>>)
                  ELSE points)
  /\ lastClick' = (IF AcceptsClick(points) THEN "recorded" ELSE "ignored")
  /\ UNCHANGED <<build, srv, route, q, stale, timer, uploadPage, mutations,
                 history, videoFrame, imageLoaded, natural, rect, canvas,
                 referenceDistance, calibration, calReq, srvCal, lastAlert,
                 calQ>>
  /\ RedrawEffect

\* onChange of the reference distance input.
setReferenceDistance(t) ==
  /\ VideoShown
  /\ referenceDistance' = parseFloat(t)
  /\ UNCHANGED <<build, srv, route, q, stale, timer, uploadPage, mutations,
                 history, videoFrame, imageLoaded, natural, rect, canvas,
                 points, calibration, lastClick, calWire>>
  /\ RedrawEffect

\* handleSaveCalibration.  The button is disabled while saveMutation.isPending
\* (which version 4 does not define); its other disabling condition repeats
\* the handler's first check, so the handler is taken for every point count.
handleSaveCalibration ==
  /\ VideoShown
  /\ rqMajor = 5 => calReq = <<>>
  /\ Len(calReq) < MaxSaves
  /\ IF Len(points) # RequiredPoints
       THEN lastAlert' = "points" /\ UNCHANGED calReq
     ELSE IF RejectedDistance(referenceDistance)
       THEN lastAlert' = "distance" /\ UNCHANGED calReq
     ELSE /\ calReq' = Append(calReq,
                 <<routeId, [points |-> points,
                             reference_distance |-> referenceDistance]>>)
          /\ UNCHANGED lastAlert
  /\ UNCHANGED <<build, srv, route, q, stale, timer, uploadPage, mutations,
                 history, capture, srvCal, clicks, calQ>>

\* How many of the invalidateQueries calls of saveMutation.onSuccess match
\* the ['video', id] query: the first in version 4, both in version 5.
SaveInvalidations == IF rqMajor = 4 THEN 1 ELSE 2

\* POST /videos/{id}/calibrate answers 200: the server replaces the stored
\* calibration; saveMutation.onSuccess alerts, invalidates and navigates to
\* /videos/{id}, whatever page is mounted by then.  The calibration query
\* is refetched by the invalidation when the calibration page observes it.
SaveOk ==
  /\ calReq # <<>>
  /\ LET id == Head(calReq)[1]
         t == InvalidateTarget(id)
         n == SaveInvalidations
         hit == t # 0 /\ q[t].present
         q1 == IF hit THEN Refetched(q, t, n) ELSE q
         ct == IF page = "calibration" THEN t ELSE 0
         c0 == Overtaken(calQ, id)
         c1 == IF ct # 0 /\ q[ct].data # "undefined"
                 THEN CalRefetched(c0, ct) ELSE c0
     IN /\ srv[id] \in Status
        /\ srvCal' = [srvCal EXCEPT ![id] = Head(calReq)[2]]
        /\ stale' = (IF hit THEN [stale EXCEPT ![t] = @ \/ Abandoned(q, t, n) > 0]
                     ELSE stale)
        /\ IF page = "detail" /\ routeId = id
             THEN /\ q' = q1
                  /\ reads' = (IF hit THEN LoggedN(reads, Read("invalidate", 0),
                                                   Reissued(q, t, n))
                               ELSE reads)
                  /\ calQ' = c1
                  /\ UNCHANGED <<route, timer, uploadPage, resps, capture>>
             ELSE GotoFrom(q1, c1, "detail", id)
  /\ calReq' = Tail(calReq)
  /\ lastAlert' = "saved"
  /\ UNCHANGED <<build, srv, mutations, clicks>>

\* A failure handler that starts the capture over.
SaveFailDropsPoints ==
  /\ calReq # <<>>
  /\ calReq' = Tail(calReq)
  /\ lastAlert' = "failed"
  /\ points' = <<>>
  /\ UNCHANGED <<build, srv, route, q, stale, timer, uploadPage, mutations,
                 history, videoFrame, imageLoaded, natural, rect, canvas,
                 referenceDistance, calibration, lastClick, srvCal, clicks,
                 calQ>>
  /\ RedrawEffect

\* The request fails: saveMutation.onError alerts.
SaveFail ==
  /\ calReq # <<>>
  /\ calReq' = Tail(calReq)
  /\ lastAlert' = "failed"
  /\ UNCHANGED <<build, srv, route, q, stale, timer, uploadPage, mutations,
                 history, capture, srvCal, clicks, calQ>>

\* A reset that forgets the points and keeps the distance typed.
ResetKeepsDistance ==
  /\ VideoShown
  /\ points' = <<>>
  /\ referenceDistance' = referenceDistance
  /\ UNCHANGED <<build, srv, route, q, stale, timer, uploadPage, mutations,
                 history, videoFrame, imageLoaded, natural, rect, canvas,
                 calibration, lastClick, calWire>>
  /\ RedrawEffect

\* handleReset
handleReset ==
  /\ VideoShown
  /\ points' = <<>>
  /\ referenceDistance' = Num(DefaultDistance)
  /\ UNCHANGED <<build, srv, route, q, stale, timer, uploadPage, mutations,
                 history, videoFrame, imageLoaded, natural, rect, canvas,
                 calibration, lastClick, calWire>>
  /\ RedrawEffect

\* The calibration screen, from its mount to the navigation after a save.
NextCal ==
  \/ \E id \in Ids : ReadOk(id)
  \/ \E id \in Ids : ReadFail(id)
  \/ \E id \in Ids : StaleResponse(id)
  \/ \E l \in Layouts : FrameLoaded(l[1], l[2])
  \/ ImageOnLoad
  \/ \E id \in Ids : CalibrationLoaded(id)
  \/ \E c \in ClickOffsets : handleCanvasClick(c[1], c[2])
  \/ \E t \in DistanceTexts : setReferenceDistance(t)
  \/ handleSaveCalibration
  \/ SaveOk
  \/ SaveFail
  \/ handleReset

\* A calibration saved in an earlier session.
StoredCalibration ==
  [points |-> << <<Frac(1, 1), Frac(1, 1)>>, <<Frac(3, 1), Frac(1, 1)>>,
                 <<Frac(3, 1), Frac(2, 1)>>, <<Frac(1, 1), Frac(2, 1)>> >>,
   reference_distance |-> Num(3)]

\* /videos/1/calibrate has just been mounted (its video query is fetching);
\* the server holds no calibration for the job, or one saved earlier.
InitCal ==
  /\ rqMajor \in {4, 5}
  /\ gw = NoCall
  /\ recording = FALSE
  /\ srv = [k \in Ids |-> IF k = 1 THEN "uploaded" ELSE "none"]
  /\ page = "calibration"
  /\ routeId = 1
  /\ q = Attach([k \in Ids |-> NoQuery], 1, "calibration")
  /\ stale = [k \in Ids |-> FALSE]
  /\ timer = [k \in Ids |-> 0]
  /\ pollingVideo = 0
  /\ navTimer = FALSE
  /\ upReqs = <<>>
  /\ selectedFile = NoFile
  /\ dragActive = FALSE
  /\ uploadProgress = 0
  /\ enable_speed_calculation = FALSE
  /\ processingConfig = DefaultForm
  /\ processMutation = "idle"
  /\ procReq = 0
  /\ procConfig = NoConfig
  /\ procBody = NoConfig
  /\ procRepeats = 0
  /\ delReq = 0
  /\ listDelReq = 0
  /\ reads = <<>>
  /\ resps = <<>>
  /\ videoFrame = FALSE
  /\ imageLoaded = FALSE
  /\ natural = <<0, 0>>
  /\ rect = <<0, 0>>
  /\ canvas = <<0, 0>>
  /\ surface = Blank
  /\ points = <<>>
  /\ referenceDistance = Num(DefaultDistance)
  /\ calibration = FALSE
  /\ clicks = 0
  /\ lastClick = "none"
  /\ calReq = <<>>
  /\ srvCal \in {[k \in Ids |-> NoCalibration],
                 [k \in Ids |-> IF k = 1 THEN StoredCalibration ELSE NoCalibration]}
  /\ calQ = [k \in Ids |-> NoCalQuery]
  /\ lastAlert = "none"

SpecCal == InitCal /\ [][NextCal]_vars

\* Calibrations another session may have stored: complete, with three
\* points only, and complete with the distance 0.
ForeignCalibrations ==
  {StoredCalibration,
   [StoredCalibration EXCEPT !.points = SubSeq(@, 1, 3)],
   [StoredCalibration EXCEPT !.reference_distance = Num(0)]}

\* Another session stores a calibration for the job.
ForeignCalibration(id, c) ==
  /\ srv[id] \in Status
  /\ srvCal[id] # c
  /\ srvCal' = [srvCal EXCEPT ![id] = c]
  /\ UNCHANGED <<build, srv, route, q, stale, timer, uploadPage, mutations,
                 history, capture, calReq, lastAlert, clicks, calQ>>

\* The calibration screen receives the calibration of its job, whatever
\* the server holds for it.
NextFill ==
  \/ \E id \in Ids : ReadOk(id)
  \/ \E l \in Layouts : FrameLoaded(l[1], l[2])
  \/ ImageOnLoad
  \/ \E id \in Ids, c \in ForeignCalibrations : ForeignCalibration(id, c)
  \/ \E id \in Ids : CalibrationLoaded(id)
  \/ \E id \in Ids : CalibrationFail(id)
  \/ \E c \in ClickOffsets : handleCanvasClick(c[1], c[2])

SpecFill == InitCal /\ [][NextFill]_vars

\* The calibration screen over several visits: a calibration is captured
\* with the default distance and saved, and the screen opened again.
NextTrip ==
  \/ \E id \in Ids : OpenCalibration(id)
  \/ \E id \in Ids : ReadOk(id)
  \/ FrameLoaded(<<4, 2>>, <<2, 2>>)
  \/ ImageOnLoad
  \/ \E id \in Ids : CalibrationLoaded(id)
  \/ \E id \in Ids : CalibrationFail(id)
  \/ \E c \in ClickOffsets : handleCanvasClick(c[1], c[2])
  \/ handleSaveCalibration
  \/ SaveOk
  \/ SaveFail

SpecTrip == InitCal /\ [][NextTrip]_vars

\* The upload screen, from the choice of a file to the hand-off.
DragEvents == {"dragenter", "dragover", "dragleave"}

\* Bytes gone out when a progress event fires.
Sent == {3, 8}

NextUp ==
  \/ \E type \in DragEvents : handleDrag(type)
  \/ \E f \in Files \cup {NoFile} : handleDrop(f)
  \/ \E f \in Files : handleFileChange(f)
  \/ RemoveFile
  \/ handleUpload
  \/ \E i \in 1..MaxUploads, loaded \in Sent, computable \in BOOLEAN :
        UploadProgress(i, loaded, computable)
  \/ \E i \in 1..MaxUploads : UploadOk(i)
  \/ \E i \in 1..MaxUploads : UploadFail(i)
  \/ \E id \in Ids : TimerTick(id)
  \/ \E id \in Ids : ReadOk(id)
  \/ NavFire

\* /upload has just been mounted; the server holds no job yet.
InitUp ==
  /\ rqMajor \in {4, 5}
  /\ gw = NoCall
  /\ recording = FALSE
  /\ srv = [k \in Ids |-> "none"]
  /\ page = "upload"
  /\ routeId = 0
  /\ q = [k \in Ids |-> NoQuery]
  /\ stale = [k \in Ids |-> FALSE]
  /\ timer = [k \in Ids |-> 0]
  /\ srvCal = [k \in Ids |-> NoCalibration]
  /\ NothingYet

SpecUp == InitUp /\ [][NextUp]_vars

\* The views of a job, and its deletion from the detail view or from the
\* videos list.
NextDel ==
  \/ \E id \in Ids : OpenDetail(id)
  \/ \E id \in Ids : OpenCalibration(id)
  \/ OpenHome
  \/ \E id \in Ids : TimerTick(id)
  \/ \E id \in Ids : ReadOk(id)
  \/ \E id \in Ids : ReadFail(id)
  \/ \E id \in Ids : StaleResponse(id)
  \/ \E id \in Ids : GcCollect(id)
  \/ \E id \in Ids : handleDelete(id)
  \/ DeleteOk
  \/ DeleteFail
  \/ \E id \in Ids : VideosPage_handleDelete(id)
  \/ VideosPage_DeleteOk
  \/ VideosPage_DeleteFail

SpecDel == Init /\ [][NextDel]_vars

\* The detail view and its processing form; job 1 has no calibration, or one
\* saved earlier.
InitProc ==
  /\ rqMajor \in {4, 5}
  /\ gw = NoCall
  /\ recording = FALSE
  /\ srv = [k \in Ids |-> IF k = 1 THEN "uploaded" ELSE "none"]
  /\ page = "home"
  /\ routeId = 0
  /\ q = [k \in Ids |-> NoQuery]
  /\ stale = [k \in Ids |-> FALSE]
  /\ timer = [k \in Ids |-> 0]
  /\ srvCal \in {[k \in Ids |-> NoCalibration],
                 [k \in Ids |-> IF k = 1 THEN StoredCalibration ELSE NoCalibration]}
  /\ NothingYet

NextProc ==
  \/ \E id \in Ids : OpenDetail(id)
  \/ OpenHome
  \/ \E id \in Ids : TimerTick(id)
  \/ \E id \in Ids : ReadOk(id)
  \/ \E id \in Ids : ReadFail(id)
  \/ \E id \in Ids : StaleResponse(id)
  \/ \E checked \in BOOLEAN : setProcessingConfig(checked)
  \/ \E id \in Ids : handleProcess(id)
  \/ ProcessOk
  \/ ProcessFail
  \/ \E id \in Ids, s \in Terminal : ServerFinish(id, s)

SpecProc == InitProc /\ [][NextProc]_vars

\* The texts typed into the speed limit input.
SpeedLimitTexts == {<<>>, <<"0">>, <<"-", "2">>, <<"3">>}

\* The processing form of the detail view: the operator sets its fields and
\* starts the processing.
NextForm ==
  \/ \E id \in Ids : OpenDetail(id)
  \/ \E id \in Ids : ReadOk(id)
  \/ \E checked \in BOOLEAN : setProcessingConfig(checked)
  \/ \E k \in SliderSteps : setConfidenceThreshold(k)
  \/ \E k \in SliderSteps : setIouThreshold(k)
  \/ \E t \in SpeedLimitTexts : setSpeedLimit(t)
  \/ \E id \in Ids : handleProcess(id)
  \/ ProcessOk
  \/ ProcessFail

SpecForm == InitProc /\ [][NextForm]_vars

\* A caller invokes an operation of videoAPI: the request passes the
\* request interceptor and is sent.
gatewayCall(op) ==
  /\ gw.stage = "idle"
  /\ gw' = [NoCall EXCEPT !.op = op, !.sent = onRequest(RequestConfig(op)),
                          !.issued = 1, !.stage = "wire"]
  /\ UNCHANGED <<rqMajor, recording, srv, route, q, stale, timer, uploadPage,
                 mutations, history, cal>>

\* The request ends with outcome: the response interceptor runs, then the
\* operation goes on from its await.
gatewaySettle(outcome) ==
  /\ gw.stage = "wire"
  /\ gw.issued <= 2
  /\ LET p == IF outcome.kind = "response" THEN onFulfilled(outcome)
                                           ELSE onRejected(outcome)
         c == [gw EXCEPT !.raised = outcome]
     IN gw' = IF p.state = "fulfilled" THEN awaitDone(c, p.with)
                                       ELSE awaitFailed(c, p.with)
  /\ UNCHANGED <<rqMajor, recording, srv, route, q, stale, timer, uploadPage,
                 mutations, history, cal>>

\* The caller has taken the result.
gatewayReturn ==
  /\ gw.stage = "returned"
  /\ gw' = NoCall
  /\ UNCHANGED <<rqMajor, recording, srv, route, q, stale, timer, uploadPage,
                 mutations, history, cal>>

\* The calls of the operations of videoAPI, one at a time.
NextWire ==
  \/ \E op \in Ops : gatewayCall(op)
  \/ \E outcome \in Outcomes : gatewaySettle(outcome)
  \/ gatewayReturn

SpecWire == InitProc /\ [][NextWire]_vars

\* The gateway operation process called with config objects of every kind:
\* fields absent, inside and outside their domains.
Configs ==
  [confidence_threshold :
     {Absent, Number(1, 10), Number(1, 1), Number(0, 1), NotANumber},
   iou_threshold :
     {Absent, Number(1, 10), Number(1, 1), Number(0, 1), NotANumber},
   enable_speed_calculation : {Absent, Bool(FALSE), Bool(TRUE)},
   speed_limit : {Absent, Number(1, 1), Number(300, 1), Number(-5, 1)}]

NextGate ==
  \/ \E id \in Ids, config \in Configs : videoAPI_process(id, config)
  \/ ProcessOk
  \/ ProcessFail

SpecGate == InitProc /\ [][NextGate]_vars

\* The detail view alone, with the histories of its session kept.
InitPoll == Start /\ recording = TRUE

NextPoll ==
  \/ \E id \in Ids : OpenDetail(id)
  \/ OpenHome
  \/ \E id \in Ids : TimerTick(id)
  \/ \E id \in Ids : ReadOk(id)
  \/ \E id \in Ids : ReadFail(id)
  \/ \E id \in Ids : StaleResponse(id)
  \/ \E id \in Ids : handleProcess(id)
  \/ ProcessOk
  \/ ProcessFail
  \/ \E id \in Ids, s \in Terminal : ServerFinish(id, s)

SpecPoll == InitPoll /\ [][NextPoll]_vars

\* ------------------------------------------------------------------ claims
DetailOn(id) == page = "detail" /\ routeId = id

OneReadAtATime ==
  \A id \in Ids : ~(q[id].fetch = "request" /\ stale[id])

\* C3: while a view polls a job, the wait before the next read follows the
\* status last received: a short interval for uploaded or processing, no
\* further read for completed or failed.
IntervalFollowsStatus ==
  \A id \in Ids :
    (ObservedId = id /\ q[id].data # "undefined") =>
      /\ q[id].data \in {"uploaded", "processing"}
           => timer[id] \in {FastInterval, UploadInterval}
      /\ q[id].data \in Terminal => timer[id] = 0

\* The responses of the scenario, and the detail session at rest.
Script == <<"uploaded", "processing", "processing", "completed">>

IsPrefix(a, b) == Len(a) <= Len(b) /\ \A i \in 1..Len(a) : a[i] = b[i]

AtRest ==
  /\ page = "detail"
  /\ q[routeId].fetch = "idle"
  /\ timer[routeId] = 0
  /\ procReq = 0
  /\ ~stale[routeId]
  /\ Len(resps) >= 1
  /\ Len(reads) = Len(resps)
  /\ Len(reads) < MaxLog

\* C4: when the responses are uploaded, processing, processing, completed,
\* the detail view issues four reads, those after the first at the fast
\* interval, and none after completed.  Stated on the session at rest (no
\* read running, no timer armed, no mutation pending, every read of the
\* session answered): its responses, when they begin as that sequence does,
\* are that sequence.
PollsOncePerStatus ==
  (AtRest /\ IsPrefix(resps, Script)) =>
    /\ resps = Script
    /\ Len(reads) = 4
    /\ \A i \in 2..Len(reads) :
         reads[i].cause = "timer" => reads[i].wait = FastInterval

\* C5: the snapshot held for an id was produced by a read issued for that id,
\* also when the response arrives after the page has moved to another id.
SnapshotOfItsOwnId ==
  \A k \in Ids : q[k].data # "undefined" => q[k].dataId = k

\* C5 witness: the page observes one id while a read issued for another id,
\* which it observed before, is still on the wire.
ReadOnTheWireForLeftId ==
  /\ ObservedId # 0
  /\ \E a \in Ids : a # ObservedId /\ q[a].fetch = "request"

\* C6: after a polling view is torn down no poll timer of the id it observed
\* is left armed, and the navigation timer of the upload screen is cleared.
TeardownClearsTimers ==
  /\ \A id \in Ids : timer[id] # 0 => ObservedId = id
  /\ navTimer => (page = "upload" /\ pollingVideo # 0)

\* C6 witness: the upload screen, which polled a job it had handed off (its
\* query is still cached), has been left.
PollingViewTornDown ==
  /\ page = "home"
  /\ \E id \in Ids : q[id].present /\ q[id].gcTime = DefaultGcTime

\* C7: when a read of a polled job fails (the request and the retries made
\* for it), the first one included, the view stays polling: a timer for the
\* next read of that id is armed.
FailedReadKeepsPolling ==
  [][\A id \in Ids :
       (ReadFail(id) /\ ObservedId = id /\ q[id].data \notin Terminal)
         => timer'[id] # 0]_vars

\* The state a calibration may be saved from.
ValidCalibration ==
  /\ Len(points) = 4
  /\ ~referenceDistance.nan
  /\ referenceDistance.val > 0

\* C8: a saveCalibration request is issued only with exactly 4 points and a
\* reference distance that is a number greater than 0, and carries them; a
\* save attempt in any other state issues no request and leaves the points
\* and the reference distance as they were.
SaveOnlyWhenValid ==
  [][/\ Len(calReq') > Len(calReq) =>
          /\ ValidCalibration
          /\ calReq'[Len(calReq')][2] =
               [points |-> points, reference_distance |-> referenceDistance]
     /\ (handleSaveCalibration /\ ~ValidCalibration) =>
          /\ calReq' = calReq
          /\ points' = points
          /\ referenceDistance' = referenceDistance]_vars

\* C8 witness: a request is on the wire, and the alert shown last is the one
\* of an attempt turned down for its reference distance.
SaveRejectedThenIssued ==
  /\ calReq # <<>>
  /\ lastAlert = "distance"

\* C9: a click on the canvas when 4 points are recorded leaves the points as
\* they are; with fewer than 4 it adds one point at the end and keeps the
\* earlier points and their order.
FifthClickIgnored ==
  [][\A c \in ClickOffsets :
       handleCanvasClick(c[1], c[2]) =>
         IF Len(points) >= 4
           THEN points' = points
           ELSE /\ Len(points') = Len(points) + 1
                /\ SubSeq(points', 1, Len(points)) = points]_vars

\* C9 witness: 4 points were recorded by clicks (nothing was pre-filled), the
\* last two differ, and the click that came last was turned down.
ClickOnFullSet ==
  /\ page = "calibration"
  /\ ~calibration
  /\ Len(points) = 4
  /\ lastClick = "ignored"
  /\ points[3] # points[4]

\* C10: an accepted click at offset (x, y) on a canvas shown at (Wd, Hd) over
\* an image of native size (Wn, Hn) records the point (x*Wn/Wd, y*Hn/Hd).
ClickScaledToNative ==
  [][\A c \in ClickOffsets :
       (handleCanvasClick(c[1], c[2]) /\ Len(points) < 4) =>
         points'[Len(points')] = <<Frac(c[1] * natural[1], rect[1]),
                                   Frac(c[2] * natural[2], rect[2])>>]_vars

\* The file may be uploaded: its name ends, whatever the case of its letters,
\* with one of the allowed extensions, and it has at most 500 MB.
Uploadable(file) ==
  /\ \E e \in validTypes :
       /\ Len(file.name) >= Len(e)
       /\ toLowerCase(SubSeq(file.name, Len(file.name) - Len(e) + 1,
                             Len(file.name))) = e
  /\ file.size <= 500 * 1024 * 1024

\* C14: a file whose extension is outside the allow-list or whose size
\* exceeds 500 MB is never selected for upload and never sent: every upload
\* request on the wire carries a file that passes both checks.
InvalidFileNeverSent ==
  /\ selectedFile # NoFile => Uploadable(selectedFile)
  /\ \A i \in 1..Len(upReqs) : Uploadable(upReqs[i].file)

\* C14 witness: a file of more than 500 MB was dropped, and turned down,
\* while an upload is on the wire.
OversizeDropDuringUpload ==
  /\ page = "upload"
  /\ lastAlert = "file size"
  /\ upReqs # <<>>

\* C15: the percentages a request's progress events publish are integers in
\* 0..100 that never decrease, and the success of an upload publishes 100.
ProgressNeverDecreases ==
  [][/\ \A i \in 1..MaxUploads, loaded \in Sent :
          UploadProgress(i, loaded, TRUE) =>
            /\ uploadProgress' \in 0..100
            /\ uploadProgress' >= upReqs[i].pub
     /\ \A i \in 1..MaxUploads : UploadOk(i) => uploadProgress' = 100]_vars

\* C15 witness: a request of 8 bytes has published 38, the rounded
\* percentage of 3 bytes.
RoundedProgressPublished ==
  /\ uploadProgress = 38
  /\ \E i \in 1..Len(upReqs) : upReqs[i].pub = 38 /\ upReqs[i].total = 8

\* C16 (as stated): a failed upload leaves the selected file in place, clears
\* the progress to 0, shows the error and hands no job id to the poll query.
FailureKeepsFile ==
  [][\A i \in 1..MaxUploads :
       UploadFail(i) =>
         /\ selectedFile' = selectedFile
         /\ uploadProgress' = 0
         /\ lastAlert' = "upload failed"
         /\ pollingVideo' = pollingVideo]_vars

\* C16 (amended): a failed upload drops the selected file (the page is back
\* at choosing a file), clears the progress to 0, shows the error and hands
\* no job id to the poll query.
FailureDropsFile ==
  [][\A i \in 1..MaxUploads :
       UploadFail(i) =>
         /\ selectedFile' = NoFile
         /\ uploadProgress' = 0
         /\ lastAlert' = "upload failed"
         /\ pollingVideo' = pollingVideo
         /\ q' = q]_vars

\* C16 witness: the upload of the only request has failed before any was
\* handed off.
UploadHasFailed ==
  /\ page = "upload"
  /\ lastAlert = "upload failed"
  /\ upReqs = <<>>
  /\ pollingVideo = 0

PollingStartsAtHandOff ==
  [][(page = "upload" /\ page' = "upload") =>
       /\ \A id \in Ids : Issued(q, q', id) =>
            (pollingVideo' = id /\ srv'[id] \in Status)
       /\ pollingVideo = 0 => \A id \in Ids : timer[id] = 0
       /\ pollingVideo' # pollingVideo =>
            /\ srv[pollingVideo'] = "none"
            /\ srv'[pollingVideo'] = "uploaded"
            /\ Issued(q, q', pollingVideo')
            /\ uploadProgress' = 100]_vars

\* C18 witness: the job of a second upload has just been handed off while the
\* first one was polled: its first read is on the wire.
SecondHandOff ==
  /\ page = "upload"
  /\ pollingVideo = 2
  /\ q[2].fetch = "request"
  /\ q[2].data = "undefined"
  /\ uploadProgress = 100

\* C19: handleProcess with speed calculation enabled on a job whose snapshot
\* says it is not calibrated issues no startProcessing request and shows the
\* calibration screen of that job; a startProcessing request is issued only
\* with speed calculation disabled or a snapshot that says calibrated.
ProcessingNeedsCalibration ==
  [][/\ \A id \in Ids :
          (handleProcess(id) /\ enable_speed_calculation
             /\ ~q[id].is_calibrated) =>
            /\ procReq' = procReq
            /\ page' = "calibration"
            /\ routeId' = id
     /\ (procReq' # 0 /\ procReq' # procReq) =>
          (~enable_speed_calculation \/ q[procReq'].is_calibrated)]_vars

\* C19 witness: the operator has been routed to the calibration screen of the
\* uncalibrated job 1, and no startProcessing request is on the wire.
RoutedToCalibration ==
  /\ page = "calibration"
  /\ routeId = 1
  /\ ~IsCalibrated(1)
  /\ procReq = 0

\* C20: after a job is deleted, a view opened on its id shows no earlier
\* snapshot of it: the cache holds none for that id.
DeletedJobNotShown ==
  [][\A id \in Ids :
       (srv[id] = "deleted" /\ (OpenDetail(id) \/ OpenCalibration(id)))
         => q'[id].data = "undefined"]_vars

\* C12: a reset, from any state of the capture, leaves no point and the
\* default distance, and sends nothing: no calibration request is added and
\* no query starts a fetch.
ResetClearsCapture ==
  [][handleReset =>
       /\ points' = <<>>
       /\ referenceDistance' = Num(DefaultDistance)
       /\ calReq' = calReq
       /\ q' = q
       /\ calQ' = calQ
       /\ mutations' = mutations]_vars

\* The capture was pre-filled with the stored calibration (four points,
\* distance 3) and has been reset.
ResetAfterPrefill ==
  /\ page = "calibration"
  /\ calibration
  /\ srvCal[routeId] # NoCalibration
  /\ points = <<>>
  /\ referenceDistance = Num(DefaultDistance)

\* C11: what a save stored is what a later read of the calibration returns,
\* and the capture screen is pre-filled with it: whenever the screen's
\* calibration query holds the answer of a read made after the save, the
\* points of the capture are the saved points, in order, and its distance
\* the saved distance.
SavedCalibrationPrefilled ==
  (/\ page = "calibration"
   /\ IsCalibrated(routeId)
   /\ calQ[routeId].has
   /\ calQ[routeId].data = getCalibration(routeId))
    => /\ points = srvCal[routeId].points
       /\ referenceDistance = srvCal[routeId].reference_distance

\* The screen was opened again after a save of four clicked points with the
\* distance 10, and shows them before any click.
ReopenedPrefilled ==
  /\ page = "calibration"
  /\ lastClick = "none"
  /\ srvCal[routeId] # StoredCalibration
  /\ srvCal[routeId].reference_distance = Num(DefaultDistance)
  /\ Len(points) = RequiredPoints
  /\ points = srvCal[routeId].points
  /\ referenceDistance = Num(DefaultDistance)

\* C13: once a save has succeeded, no view consumes a job value read before
\* it: the snapshot a view of the job shows says of the job's calibration
\* what the server holds.
NoValueFromBeforeSave ==
  \A id \in Ids :
    (page \in ByIdPages /\ routeId = id /\ q[id].data # "undefined")
      => q[id].is_calibrated = IsCalibrated(id)

\* The documented domains of the fields of a processing configuration.
InUnitInterval(v) == v.t = "number" /\ v.n > 0 /\ v.n <= v.d
Positive(v) == v.t = "number" /\ v.n > 0

WithinDomains(config) ==
  /\ config.confidence_threshold = Absent
       \/ InUnitInterval(config.confidence_threshold)
  /\ config.iou_threshold = Absent \/ InUnitInterval(config.iou_threshold)
  /\ config.enable_speed_calculation = Absent
       \/ config.enable_speed_calculation.t = "boolean"
  /\ config.speed_limit = Absent \/ Positive(config.speed_limit)

\* A field as the contract has it transmitted.
Transmitted(v, default) == IF v = Absent THEN default ELSE v

\* C21: the body of a startProcessing request carries every field present
\* in the config of the call unchanged and every omitted field as its
\* default (0.3, 0.7, false, 80), when the present fields are within their
\* domains.
ConfigTransmittedWithDefaults ==
  (procReq # 0 /\ WithinDomains(procConfig)) =>
     /\ procBody.confidence_threshold
          = Transmitted(procConfig.confidence_threshold, Number(3, 10))
     /\ procBody.iou_threshold
          = Transmitted(procConfig.iou_threshold, Number(7, 10))
     /\ procBody.enable_speed_calculation
          = Transmitted(procConfig.enable_speed_calculation, Bool(FALSE))
     /\ procBody.speed_limit
          = Transmitted(procConfig.speed_limit, Number(80, 1))

\* A request is on the wire for a config with the confidence threshold 0.1
\* and speed calculation on, and neither iou threshold nor speed limit.
OmittedSpeedLimitDefaulted ==
  /\ procReq # 0
  /\ procConfig.confidence_threshold = Number(1, 10)
  /\ procConfig.enable_speed_calculation = Bool(TRUE)
  /\ procConfig.iou_threshold = Absent
  /\ procConfig.speed_limit = Absent
  /\ procBody.confidence_threshold = Number(1, 10)
  /\ procBody.enable_speed_calculation = Bool(TRUE)
  /\ procBody.iou_threshold = Number(7, 10)
  /\ procBody.speed_limit = Number(80, 1)

\* C22: every startProcessing request on the wire carries thresholds in
\* (0, 1] and a speed limit above 0, whatever was entered in the form.
TransmittedConfigInDomain ==
  procReq # 0 =>
    /\ InUnitInterval(procBody.confidence_threshold)
    /\ InUnitInterval(procBody.iou_threshold)
    /\ Positive(procBody.speed_limit)

\* C23: the logging of the transport client leaves the control flow alone:
\* the request goes out with the configuration the operation built, a
\* response comes back to the caller as that response, and a failure of any
\* kind comes back as that same error, thrown.
LoggingKeepsControlFlow ==
  gw.stage # "idle" =>
    /\ gw.sent = RequestConfig(gw.op)
    /\ gw.stage = "returned" =>
         /\ gw.raised.kind = "response" => gw.result = Value(gw.raised)
         /\ gw.raised.kind = "error" => gw.result = Thrown(gw.raised)

\* A call has ended with an error that carries no response, thrown to the
\* caller.
FailureReRaised ==
  /\ gw.stage = "returned"
  /\ gw.raised = ErrorOf(0, "request")
  /\ gw.result = Thrown(ErrorOf(0, "request"))

\* C24: an operation of the gateway sends one request per call, never a
\* second one, and a call whose request failed ends by throwing the
\* transport's error, not by returning a value.
OneRequestPerCall ==
  gw.stage # "idle" =>
    /\ gw.issued = 1
    /\ (gw.stage = "returned" /\ gw.raised.kind = "error") =>
         (gw.result.thrown /\ gw.result.of = gw.raised)

\* A saveCalibration call has ended with the 422 of the server thrown.
FailedCallPropagated ==
  /\ gw.stage = "returned"
  /\ gw.op = "saveCalibration"
  /\ gw.issued = 1
  /\ gw.result = Thrown(ErrorOf(422, "response"))

\* C25: the body of every saveCalibration request has the calibration wire
\* shape: a mode field equal to "four_point", exactly four points, and a
\* reference distance that is a number.
SaveBodyHasWireShape ==
  \A i \in 1..Len(calReq) :
    LET body == calReq[i][2]
    IN /\ "mode" \in DOMAIN body
       /\ body.mode = "four_point"
       /\ Len(body.points) = RequiredPoints
       /\ ~body.reference_distance.nan

\* C26: a read of one job id that fails leaves the snapshot, the fetch state
\* and the timer of every other job id as they were.
FailedReadTouchesOneId ==
  [][\A id \in Ids :
       ReadFail(id) =>
         \A k \in Ids \ {id} :
           q'[k] = q[k] /\ timer'[k] = timer[k] /\ stale'[k] = stale[k]]_vars

\* The read of job 1 has failed (its query is left without data) while job 2
\* is polled: it has a snapshot and an armed timer.
ReadFailedBesidePolledJob ==
  /\ q[1].present /\ q[1].data = "undefined" /\ q[1].fetch = "idle"
  /\ q[2].data # "undefined"
  /\ timer[2] # 0

\* C27: when the detail view of a job whose snapshot said failed or uploaded
\* applies the re-read that follows a successful startProcessing and the
\* status is processing, interval polling of the job is on again.
PollingResumesAfterStart ==
  [][\A id \in Ids :
       (/\ ReadOk(id)
        /\ page = "detail" /\ routeId = id
        /\ q[id].data \in {"failed", "uploaded"}
        /\ srv[id] = "processing")
         => timer'[id] = FastInterval]_vars

\* C28: on a capture screen that has received the calibration of its job
\* and where nothing has been clicked, the points are the saved points if
\* there are exactly four of them and none otherwise, and the distance is
\* the saved distance if it is above 0 and the default 10 otherwise, each
\* whatever the other is.
PrefillLoadsQualifyingFields ==
  (page = "calibration" /\ calQ[routeId].has /\ clicks = 0) =>
    LET data == calQ[routeId].data
    IN /\ points = (IF Len(data.points) = 4 THEN data.points ELSE <<>>)
       /\ referenceDistance =
            (IF ~data.reference_distance.nan /\ data.reference_distance.val > 0
               THEN data.reference_distance ELSE Num(DefaultDistance))

\* The screen received a calibration of three points and the distance 3:
\* the distance is loaded, the points are not.
DistanceLoadedWithoutPoints ==
  /\ page = "calibration"
  /\ calQ[routeId].has
  /\ Len(calQ[routeId].data.points) = 3
  /\ clicks = 0
  /\ points = <<>>
  /\ referenceDistance = Num(3)

\* The surface shows the image, a marker at every recorded point with its
\* 1-based position as label, and the closed outline through the points in
\* recorded order exactly when there are four of them.
SurfaceShows ==
  /\ surface.image
  /\ Len(surface.markers) = Len(points)
  /\ \A i \in 1..Len(points) : surface.markers[i] = <<points[i], i>>
  /\ surface.outline # <<>> <=> Len(points) = 4
  /\ Len(points) = 4 => surface.outline = points

Exposed(query) == <<query.data, query.dataId, query.is_calibrated>>

\* C30: a successful read of a job leaves the exposed snapshot of that id
\* equal to the response in every field, and the snapshot the detail view
\* presents changes only by a response being applied to its id, so it is
\* always the latest applied one.
SnapshotReplacedWhole ==
  [][\A id \in Ids :
       /\ (ReadOk(id) /\ q'[id].present) =>
            Exposed(q'[id]) = <<srv[id], id, IsCalibrated(id)>>
       /\ (/\ page = "detail" /\ routeId = id
           /\ UNCHANGED <<page, routeId>>
           /\ Exposed(q'[id]) # Exposed(q[id])) => ReadOk(id)]_vars

\* The detail view, reached from the capture screen, presents the job as
\* calibrated: the read that followed the save has replaced the snapshot.
RereadAfterSaveShown ==
  /\ page = "detail"
  /\ q[routeId].present
  /\ q[routeId].fetch = "idle"
  /\ q[routeId].is_calibrated
  /\ IsCalibrated(routeId)
  /\ clicks >= RequiredPoints

\* C31: a click is accepted, and a point recorded, only after the frame
\* image has loaded and the canvas has the image's native dimensions.
NoPointBeforeFrameLoaded ==
  [][\A c \in ClickOffsets :
       (handleCanvasClick(c[1], c[2]) /\ points' # points) =>
         (imageLoaded /\ canvas = natural)]_vars

\* C32: on the capture screen the number of recorded points is between 0
\* and 4, whatever the order of clicks, resets, pre-fills and save outcomes.
PointCountWithinFour ==
  page = "calibration" => Len(points) \in 0..4

\* The operator's first click was recorded and the calibration read that
\* answered afterwards pre-filled four points over it.
PrefillOverRecordedPoint ==
  /\ page = "calibration"
  /\ clicks = 1
  /\ lastClick = "recorded"
  /\ Len(points) = 4
  /\ calQ[routeId].has

\* C33: once the operator has recorded a point or edited the reference
\* distance, a calibration response that arrives afterwards changes neither
\* the recorded points nor the reference distance.  Before the first answer
\* of the calibration query nothing is pre-filled, so points and a distance
\* other than the default are the operator's.
LateCalibrationKeepsEdits ==
  [][\A id \in Ids :
       (/\ CalibrationLoaded(id)
        /\ page = "calibration" /\ routeId = id
        /\ ~calQ[id].has
        /\ (points # <<>> \/ referenceDistance # Num(DefaultDistance)))
       => UNCHANGED <<points, referenceDistance>>]_vars

\* C34 as stated: when a saveCalibration request fails on the capture
\* screen of its job, the screen is not left, no snapshot is invalidated, and
\* the points and the distance are those of the request.
FailedSaveKeepsTriggeredValues ==
  [][(SaveFail /\ page = "calibration" /\ routeId = Head(calReq)[1]) =>
       /\ UNCHANGED <<page, routeId, q, calQ>>
       /\ points' = Head(calReq)[2].points
       /\ referenceDistance' = Head(calReq)[2].reference_distance]_vars

\* C34: the failure of a saveCalibration request changes nothing but the
\* alert: the page stays, no job or calibration query is invalidated or
\* refetched, and the points and the distance are what they were just before.
FailedSaveChangesNothing ==
  [][SaveFail => UNCHANGED <<page, routeId, q, calQ, timer, points,
                             referenceDistance>>]_vars

\* A save of four points has failed and the capture screen still holds them.
SaveHasFailed ==
  /\ page = "calibration"
  /\ lastAlert = "failed"
  /\ calReq = <<>>
  /\ Len(points) = 4
  /\ ~RejectedDistance(referenceDistance)

\* handleProcess of job id sends a startProcessing request in this step.
StartIssued(id) ==
  /\ handleProcess(id)
  /\ procReq' = id
  /\ (procReq = 0 \/ procRepeats' > procRepeats)

HandOffReachesItsJob ==
  [][(page = "upload" /\ pollingVideo # 0 /\ pollingVideo' # pollingVideo) =>
       (page' = "detail" /\ routeId' = pollingVideo)]_vars

\* C37: while the detail view is open on a job whose snapshot says uploaded
\* or processing, polling has not stopped: a read of the job is on the wire
\* or the timer of the next one is armed.
PollingGoesOnUntilTerminal ==
  (page = "detail" /\ q[routeId].data \in {"uploaded", "processing"}) =>
    (q[routeId].fetch = "request" \/ timer[routeId] # 0)

=============================================================================
